---- MODULE Spec2Model ----
(***************************************************************************)
(* State-machine model of TransportConnection                              *)
(* (src/src/transport_connection.cpp): Connect, DoHandshake,               *)
(* WaitForDisconnect, Cleanup and the destructor.                          *)
(*                                                                         *)
(* The collaborators (transport, local proxy, system proxy settings,       *)
(* ServerRequest, DeleteFile, WaitForMultipleObjects) are external: every  *)
(* call the orchestrator makes on them is appended to `calls`, and their   *)
(* results are inputs drawn with \E.                                       *)
(***************************************************************************)
EXTENDS Integers, Sequences, FiniteSets, TLC

\* ---- bounds ------------------------------------------------------------
MaxEntries == 3        \* longest server-entry list passed to Connect
MaxMultiConnect == 3   \* largest GetMultiConnectCount() of a transport

\* ---- values ------------------------------------------------------------
\* A ServerEntry: its address and whether the transport's
\* IsHandshakeRequired predicate holds of it.
ServerEntry == [addr : 1..MaxEntries, hs : BOOLEAN]

\* The candidate lists a caller can pass: non-empty (assert at line 59),
\* entries distinguished by their address.
ServerEntriesInputs ==
    UNION { { s \in [1..n -> ServerEntry] : \A i \in 1..n : s[i].addr = i }
            : n \in 1..MaxEntries }

NoSession == [server |-> 0, merged |-> FALSE]
\* What a read through front()/operator[] of an empty vector can deliver.
GarbageSession == [server |-> -1, merged |-> FALSE]

\* SessionInfo::Set(serverEntry)
SessionInfoSet(e) == [server |-> e.addr, merged |-> FALSE]

\* ITransport::IsHandshakeRequired(entry)
IsHandshakeRequired(e) == e.hs

\* Outcomes of the handshake request: MakeRequest failed, an empty body,
\* a body ParseHandshakeResponse rejects, a body it accepts.
HandshakeResponses == {"reqfail", "empty", "malformed", "ok"}

VARIABLES
    pc,                     \* position of the single calling thread
    ndebug,                 \* TRUE: asserts compiled out (release build)
    m_transport,            \* TRUE iff m_transport != 0
    m_localProxy,           \* TRUE iff m_localProxy != 0
    m_sessionInfo,
    io_serverEntries,       \* the caller's list, modified in place
    sessionInfoCandidates,
    handshakeDone,
    args,                   \* the arguments of the Connect call
    calls,                  \* calls made on the collaborators, in order
    raised,                 \* what the last operation threw ("none" if nothing)
    hsLog,                  \* DoHandshake invocations: phase, response, result
    chosenSessionInfoIndex,
    localProxySessionInfo,  \* last value given to LocalProxy::UpdateSessionInfo
    transportSessionInfo,   \* last value given to ITransport::UpdateSessionInfo
    waitResult              \* result of WaitForMultipleObjects

vars == <<pc, ndebug, m_transport, m_localProxy, m_sessionInfo,
          io_serverEntries, sessionInfoCandidates, handshakeDone, args,
          calls, raised, hsLog, chosenSessionInfoIndex,
          localProxySessionInfo, transportSessionInfo, waitResult>>

NoArgs == [entries |-> <<>>, multiConnectCount |-> 0,
           disallowHandshake |-> FALSE, splitTunnelingFilePath |-> FALSE]

\* TransportConnection::TransportConnection()
Init ==
    /\ pc = "constructed"
    /\ ndebug \in BOOLEAN
    /\ m_transport = FALSE
    /\ m_localProxy = FALSE
    /\ m_sessionInfo = NoSession
    /\ io_serverEntries = <<>>
    /\ sessionInfoCandidates = <<>>
    /\ handshakeDone = FALSE
    /\ args = NoArgs
    /\ calls = <<>>
    /\ raised = "none"
    /\ hsLog = <<>>
    /\ chosenSessionInfoIndex = -1
    /\ localProxySessionInfo = NoSession
    /\ transportSessionInfo = NoSession
    /\ waitResult = -1     \* no wait has returned yet

\* ---- the candidate filter (Connect, lines 69-113) ------------------------
\* vector::resize(n) as the code uses it (only ever to shrink)
Resize(s, n) == IF n < Len(s) THEN SubSeq(s, 1, n) ELSE s

\* vector::erase(begin()+i), i 1-based here
Erase(s, i) == SubSeq(s, 1, i - 1) \o SubSeq(s, i + 1, Len(s))

\* the loop of lines 88-94: i runs from the last index down to the first
RECURSIVE RemoveHandshakeEntries(_, _)
RemoveHandshakeEntries(s, i) ==
    IF i < 1 THEN s
    ELSE IF IsHandshakeRequired(s[i])
         THEN RemoveHandshakeEntries(Erase(s, i), i - 1)
         ELSE RemoveHandshakeEntries(s, i - 1)

\* mutant: the truncation of line 76 forgotten
FilterPreHandshakeKeepAll(entries) == entries

\* lines 69-76: the first entry requires pre-handshake
FilterPreHandshake(entries) == Resize(entries, 1)

\* mutant: trims to the multi-connect count before removing the entries that
\* need a pre-handshake
FilterNoPreHandshakeTrimFirst(entries, multiConnectCount) ==
    LET trimmed == IF Len(entries) > multiConnectCount
                   THEN Resize(entries, multiConnectCount)
                   ELSE entries
    IN  RemoveHandshakeEntries(trimmed, Len(trimmed))

\* lines 85-102: the first entry does not require pre-handshake
FilterNoPreHandshake(entries, multiConnectCount) ==
    LET kept == RemoveHandshakeEntries(entries, Len(entries))
    IN  IF Len(kept) > multiConnectCount
        THEN Resize(kept, multiConnectCount)
        ELSE kept

\* lines 69-102
FilterServerEntries(entries, multiConnectCount) ==
    IF IsHandshakeRequired(entries[1])
    THEN FilterPreHandshake(entries)
    ELSE FilterNoPreHandshake(entries, multiConnectCount)

\* lines 108-113
MakeCandidates(entries) == [i \in 1..Len(entries) |-> SessionInfoSet(entries[i])]

\* mutant: the disallowHandshake test of line 80 forgotten
HandshakeDisallowedIgnored(entries, disallowHandshake) == FALSE

\* lines 69 and 80-83: pre-handshake needed but forbidden by the caller
HandshakeDisallowed(entries, disallowHandshake) ==
    IsHandshakeRequired(entries[1]) /\ disallowHandshake

\* lines 71-72: the debug checks of the pre-handshake branch
PreHandshakeAsserts(entries, multiConnectCount) ==
    Len(entries) = 1 /\ multiConnectCount = 1

\* A call on a collaborator and what it returned ("void" when nothing, or
\* when the model has no use for it).
Call(op, result) == [op |-> op, result |-> result]

\* mutant: Cleanup reverts the proxy settings last
CleanupCallsRevertLast(transport, localProxy) ==
    (IF transport
     THEN <<Call("TransportStop", "void"), Call("TransportCleanup", "void")>>
     ELSE <<>>)
    \o (IF localProxy THEN <<Call("LocalProxyDelete", "void")>> ELSE <<>>)
    \o <<Call("Revert", "void")>>

\* mutant: Cleanup resets m_localProxy without deleting the local proxy
CleanupCallsNoDelete(transport, localProxy) ==
    <<Call("Revert", "void")>>
    \o (IF transport
        THEN <<Call("TransportStop", "void"), Call("TransportCleanup", "void")>>
        ELSE <<>>)

\* ---- Cleanup (lines 309-325) ---------------------------------------------
\* The calls Cleanup makes, given m_transport and m_localProxy.
CleanupCalls(transport, localProxy) ==
    <<Call("Revert", "void")>>
    \o (IF transport
        THEN <<Call("TransportStop", "void"), Call("TransportCleanup", "void")>>
        ELSE <<>>)
    \o (IF localProxy THEN <<Call("LocalProxyDelete", "void")>> ELSE <<>>)

\* mutant: m_localProxy is not reset after the delete (line 324 forgotten)
AfterCleanupKeepsLocalProxy(transport, localProxy) ==
    [m_transport |-> transport, m_localProxy |-> localProxy]

\* The members after Cleanup (lines 317-324): m_localProxy is reset,
\* m_transport is left as it was.
AfterCleanup(transport, localProxy) ==
    [m_transport |-> transport, m_localProxy |-> FALSE]

\* mutant: a failure that is not TransportFailed is wrapped in a worker error
RethrownAsWorkerError(ex) ==
    IF ex = "TransportFailed" THEN "TryNextServer"
    ELSE IF ex = "TryNextServer" THEN ex
    ELSE "WorkerError"

\* mutant: every caught failure becomes TryNextServer
RethrownAlwaysTryNextServer(ex) == "TryNextServer"

\* mutant: TransportFailed is rethrown as it is
RethrownUnchanged(ex) == ex

\* What the catch clauses of Connect throw for a caught exception
\* (lines 207-220).
Rethrown(ex) == IF ex = "TransportFailed" THEN "TryNextServer" ELSE ex

\* The catch clauses of Connect (lines 207-220): Cleanup, then throw.
\* cs: the calls made so far; localProxy: m_localProxy at the throw.
CatchCleanupThrow(ex, cs, localProxy) ==
    /\ calls' = cs \o CleanupCalls(m_transport, localProxy)
    /\ m_localProxy' = AfterCleanup(m_transport, localProxy).m_localProxy
    /\ raised' = Rethrown(ex)
    /\ pc' = "failed"

\* mutant: a response that does not parse is reported as a plain failure
DoHandshakeParseFailureReturnsFalse(preTransport, response, sessionInfo) ==
    [reqLevel    |-> IF preTransport THEN "FULL" ELSE "ONLY_IF_TRANSPORT",
     ret         |-> IF response = "ok" THEN "true" ELSE "false",
     sessionInfo |-> IF response = "ok"
                     THEN [sessionInfo EXCEPT !.merged = TRUE]
                     ELSE sessionInfo]

\* mutant: the test for an empty response (line 270) forgotten
DoHandshakeAcceptsEmptyResponse(preTransport, response, sessionInfo) ==
    [reqLevel    |-> IF preTransport THEN "FULL" ELSE "ONLY_IF_TRANSPORT",
     ret         |-> IF response = "reqfail" THEN "false"
                     ELSE IF response = "malformed" THEN "throw"
                     ELSE "true",
     sessionInfo |-> IF response = "ok"
                     THEN [sessionInfo EXCEPT !.merged = TRUE]
                     ELSE sessionInfo]

\* ---- DoHandshake (lines 248-284) -----------------------------------------
\* ret: "false" (line 273), "throw" (TryNextServer, line 280), "true".
DoHandshake(preTransport, response, sessionInfo) ==
    [reqLevel    |-> IF preTransport THEN "FULL" ELSE "ONLY_IF_TRANSPORT",
     ret         |-> IF response \in {"reqfail", "empty"} THEN "false"
                     ELSE IF response = "malformed" THEN "throw"
                     ELSE "true",
     sessionInfo |-> IF response = "ok"
                     THEN [sessionInfo EXCEPT !.merged = TRUE]
                     ELSE sessionInfo]

HandshakeRecord(preTransport, response, h) ==
    [pre |-> preTransport, response |-> response, ret |-> h.ret,
     reqLevel |-> h.reqLevel]

\* ---- Connect, lines 55-116: asserts, filter, candidates, attach ------------
ConnectBegin ==
    /\ pc = "constructed"
    /\ \E entries \in ServerEntriesInputs,
          mcc \in 0..MaxMultiConnect,
          disallow \in BOOLEAN,
          split \in BOOLEAN :
        /\ args' = [entries |-> entries, multiConnectCount |-> mcc,
                    disallowHandshake |-> disallow,
                    splitTunnelingFilePath |-> split]
        /\ IF /\ IsHandshakeRequired(entries[1])
              /\ ~ndebug
              /\ ~PreHandshakeAsserts(entries, mcc)
           THEN \* assert fails in a debug build: the process aborts
                /\ pc' = "aborted"
                /\ UNCHANGED <<m_transport, io_serverEntries,
                               sessionInfoCandidates, raised>>
           ELSE /\ io_serverEntries' = FilterServerEntries(entries, mcc)
                /\ IF HandshakeDisallowed(entries, disallow)
                   THEN \* line 82, outside the try block: no Cleanup
                        /\ raised' = "TryNextServer"
                        /\ pc' = "failed"
                        /\ UNCHANGED <<m_transport, sessionInfoCandidates>>
                   ELSE /\ sessionInfoCandidates' =
                               MakeCandidates(io_serverEntries')
                        /\ m_transport' = TRUE
                        /\ raised' = "none"
                        /\ pc' = "filtered"
    /\ handshakeDone' = FALSE
    /\ UNCHANGED <<ndebug, m_localProxy, m_sessionInfo, calls, hsLog,
                   chosenSessionInfoIndex, localProxySessionInfo,
                   transportSessionInfo, waitResult>>

\* ---- Connect, lines 120-124: delete leftover split tunnelling rules --------
DeleteFileResults == {"deleted", "ERROR_FILE_NOT_FOUND", "ERROR_OTHER"}

DeleteSplitTunnelingFile ==
    /\ pc = "filtered"
    /\ \E r \in DeleteFileResults :
        IF args.splitTunnelingFilePath
        THEN IF r = "ERROR_OTHER"
             THEN CatchCleanupThrow("StdException",
                                    Append(calls, Call("DeleteFile", r)), FALSE)
             ELSE /\ calls' = Append(calls, Call("DeleteFile", r))
                  /\ pc' = "fileChecked"
                  /\ UNCHANGED <<m_localProxy, raised>>
        ELSE /\ pc' = "fileChecked"
             /\ UNCHANGED <<calls, m_localProxy, raised>>
    /\ UNCHANGED <<ndebug, m_transport, m_sessionInfo, io_serverEntries,
                   sessionInfoCandidates, handshakeDone, args, hsLog,
                   chosenSessionInfoIndex, localProxySessionInfo,
                   transportSessionInfo, waitResult>>

\* ---- Connect, lines 126-149: the pre-connect handshake ---------------------
\* io_serverEntries.front() of an empty vector is undefined: the read may
\* fault, or deliver either truth value of the predicate.
FrontHandshakeRequired ==
    IF io_serverEntries = <<>>
    THEN {"crash", "required", "notRequired"}
    ELSE IF IsHandshakeRequired(io_serverEntries[1])
         THEN {"required"} ELSE {"notRequired"}

\* sessionInfoCandidates.front(), garbage when the vector is empty
FrontCandidate ==
    IF sessionInfoCandidates = <<>> THEN GarbageSession
    ELSE sessionInfoCandidates[1]

PreHandshake ==
    /\ pc = "fileChecked"
    /\ \E front \in FrontHandshakeRequired, r \in HandshakeResponses :
        IF front = "crash"
        THEN /\ pc' = "crashed"
             /\ UNCHANGED <<calls, m_localProxy, raised, hsLog,
                            sessionInfoCandidates, handshakeDone>>
        ELSE IF front = "required"
        THEN LET h  == DoHandshake(TRUE, r, FrontCandidate)
                 cs == Append(calls, Call("MakeRequest", r))
             IN  /\ hsLog' = Append(hsLog, HandshakeRecord(TRUE, r, h))
                 /\ IF h.ret = "true"
                    THEN /\ sessionInfoCandidates' =
                              IF sessionInfoCandidates = <<>> THEN <<>>
                              ELSE [sessionInfoCandidates
                                      EXCEPT ![1] = h.sessionInfo]
                         /\ handshakeDone' = TRUE
                         /\ calls' = Append(cs, Call("SynchReset", "void"))
                         /\ pc' = "readyToConnect"
                         /\ UNCHANGED <<m_localProxy, raised>>
                    ELSE \* line 139 (false) or line 280 (parse failure)
                         /\ CatchCleanupThrow("TryNextServer", cs, FALSE)
                         /\ UNCHANGED <<sessionInfoCandidates, handshakeDone>>
        ELSE /\ calls' = Append(calls, Call("SynchReset", "void"))
             /\ pc' = "readyToConnect"
             /\ UNCHANGED <<m_localProxy, raised, hsLog,
                            sessionInfoCandidates, handshakeDone>>
    /\ UNCHANGED <<ndebug, m_transport, m_sessionInfo, io_serverEntries, args,
                   chosenSessionInfoIndex, localProxySessionInfo,
                   transportSessionInfo, waitResult>>

\* ---- Connect, lines 151-162: the transport's blocking connect --------------
\* The transport throws TransportFailed or something else, or reports the
\* index of the winning candidate, which line 161 requires to be an index of
\* sessionInfoCandidates: given no candidate it can only throw.
TransportExceptions == {"TransportFailed", "UnknownError"}

\* line 161
ChosenIndexAssert(index, candidates) ==
    index >= 0 /\ index < Len(candidates)

TransportIndexes ==
    { index \in 0..MaxEntries :
        ChosenIndexAssert(index, sessionInfoCandidates) }

\* mutant: the first candidate is taken whatever index the transport reports
ChosenSessionFront(candidates, index) == candidates[1]

\* line 162, index 0-based as in the code
ChosenSession(candidates, index) == candidates[index + 1]

TransportConnect ==
    /\ pc = "readyToConnect"
    /\ \/ \E ex \in TransportExceptions :
            /\ CatchCleanupThrow(
                   ex, Append(calls, Call("TransportConnect", ex)), FALSE)
            /\ UNCHANGED <<chosenSessionInfoIndex, m_sessionInfo>>
       \/ \E index \in TransportIndexes :
            /\ calls' = Append(calls, Call("TransportConnect", "ok"))
            /\ chosenSessionInfoIndex' = index
            /\ m_sessionInfo' = ChosenSession(sessionInfoCandidates, index)
            /\ pc' = "transportConnected"
            /\ UNCHANGED <<m_localProxy, raised>>
    /\ UNCHANGED <<ndebug, m_transport, io_serverEntries,
                   sessionInfoCandidates, handshakeDone, args, hsLog,
                   localProxySessionInfo, transportSessionInfo, waitResult>>

\* ---- Connect, lines 164-181: local proxy start, proxy settings -------------
\* mutant: the proxy settings are applied before the local proxy is started,
\* whatever Start returns
LocalProxyStartCallsApplyFirst(started) ==
    <<Call("LocalProxyNew", "void"),
      Call("Apply", "void"),
      Call("LocalProxyStart", IF started THEN "true" ELSE "false")>>

\* the calls of lines 165-181, given what LocalProxy::Start returns
LocalProxyStartCalls(started) ==
    <<Call("LocalProxyNew", "void"),
      Call("LocalProxyStart", IF started THEN "true" ELSE "false")>>
    \o (IF started THEN <<Call("Apply", "void")>> ELSE <<>>)

StartLocalProxy ==
    /\ pc = "transportConnected"
    /\ \E started \in BOOLEAN :
        LET cs == calls \o LocalProxyStartCalls(started)
        IN  IF started
            THEN /\ calls' = cs
                 /\ m_localProxy' = TRUE
                 /\ pc' = "proxySettingsApplied"
                 /\ UNCHANGED raised
            ELSE CatchCleanupThrow("WorkerError", cs, TRUE)
    /\ UNCHANGED <<ndebug, m_transport, m_sessionInfo, io_serverEntries,
                   sessionInfoCandidates, handshakeDone, args, hsLog,
                   chosenSessionInfoIndex, localProxySessionInfo,
                   transportSessionInfo, waitResult>>

\* ---- Connect, lines 183-205: post-connect handshake, session updates -------
\* lines 201 and 205
UpdateSessionInfoCalls ==
    <<Call("LocalProxyUpdateSessionInfo", "void"),
      Call("TransportUpdateSessionInfo", "void")>>

PostHandshake ==
    /\ pc = "proxySettingsApplied"
    /\ \E r \in HandshakeResponses :
        IF ~handshakeDone /\ ~args.disallowHandshake
        THEN LET h  == DoHandshake(FALSE, r, m_sessionInfo)
                 cs == Append(calls, Call("MakeRequest", r))
             IN  /\ hsLog' = Append(hsLog, HandshakeRecord(FALSE, r, h))
                 /\ IF h.ret = "throw"
                    THEN /\ CatchCleanupThrow("TryNextServer", cs, m_localProxy)
                         /\ UNCHANGED <<m_sessionInfo, handshakeDone,
                                        localProxySessionInfo,
                                        transportSessionInfo>>
                    ELSE /\ m_sessionInfo' = h.sessionInfo
                         /\ handshakeDone' = TRUE
                         /\ calls' = cs \o UpdateSessionInfoCalls
                         /\ localProxySessionInfo' = m_sessionInfo'
                         /\ transportSessionInfo' = m_sessionInfo'
                         /\ pc' = "connected"
                         /\ UNCHANGED <<m_localProxy, raised>>
        ELSE /\ calls' = calls \o UpdateSessionInfoCalls
             /\ localProxySessionInfo' = m_sessionInfo
             /\ transportSessionInfo' = m_sessionInfo
             /\ pc' = "connected"
             /\ UNCHANGED <<m_localProxy, raised, hsLog, m_sessionInfo,
                            handshakeDone>>
    /\ UNCHANGED <<ndebug, m_transport, io_serverEntries,
                   sessionInfoCandidates, args, chosenSessionInfoIndex,
                   waitResult>>

\* ---- WaitForDisconnect (lines 223-246) -------------------------------------
WAIT_OBJECT_0 == 0
\* 0xFFFFFFFF as a DWORD; the largest integer TLC represents stands for it
WAIT_FAILED == 2147483647
waitHandlesCount == 2

\* WaitForMultipleObjects: the index of the signalled handle, or failure
WaitResults == {WAIT_OBJECT_0, WAIT_OBJECT_0 + 1, WAIT_FAILED}

\* mutant: a wait that is one past the last handle already counts as failed
WaitFailedOffByOne(result) == result >= (WAIT_OBJECT_0 + waitHandlesCount - 1)

\* line 242
WaitFailed(result) == result > (WAIT_OBJECT_0 + waitHandlesCount - 1)

\* mutant: only the collaborator that did not signal is stopped
StopOtherCalls(result) ==
    IF result = WAIT_OBJECT_0 THEN <<Call("LocalProxyStop", "void")>>
    ELSE IF result = WAIT_OBJECT_0 + 1 THEN <<Call("TransportStop", "void")>>
    ELSE <<Call("LocalProxyStop", "void"), Call("TransportStop", "void")>>

\* lines 235-238: both are stopped, whatever the wait returned
StopBothCalls(result) ==
    <<Call("LocalProxyStop", "void"), Call("TransportStop", "void")>>

\* lines 225-233: the calling thread blocks in WaitForMultipleObjects
WaitForDisconnectBlock ==
    /\ pc = "connected"
    /\ pc' = "waiting"
    /\ UNCHANGED <<ndebug, m_transport, m_localProxy, m_sessionInfo,
                   io_serverEntries, sessionInfoCandidates, handshakeDone,
                   args, calls, raised, hsLog, chosenSessionInfoIndex,
                   localProxySessionInfo, transportSessionInfo, waitResult>>

\* lines 235-245: the wait returns; stop both, Cleanup, throw on wait failure
WaitForDisconnectWake ==
    /\ pc = "waiting"
    /\ \E result \in WaitResults :
        /\ waitResult' = result
        /\ calls' = calls \o StopBothCalls(result)
                          \o CleanupCalls(m_transport, m_localProxy)
        /\ m_localProxy' = AfterCleanup(m_transport, m_localProxy).m_localProxy
        /\ raised' = IF WaitFailed(result) THEN "WorkerError" ELSE "none"
        /\ pc' = "disconnected"
    /\ UNCHANGED <<ndebug, m_transport, m_sessionInfo, io_serverEntries,
                   sessionInfoCandidates, handshakeDone, args, hsLog,
                   chosenSessionInfoIndex, localProxySessionInfo,
                   transportSessionInfo>>

\* ---- ~TransportConnection (lines 37-40) ------------------------------------
Destructor ==
    /\ pc \in {"constructed", "connected", "failed", "disconnected"}
    /\ calls' = calls \o CleanupCalls(m_transport, m_localProxy)
    /\ m_localProxy' = AfterCleanup(m_transport, m_localProxy).m_localProxy
    /\ pc' = "destroyed"
    /\ UNCHANGED <<ndebug, m_transport, m_sessionInfo, io_serverEntries,
                   sessionInfoCandidates, handshakeDone, args, raised, hsLog,
                   chosenSessionInfoIndex, localProxySessionInfo,
                   transportSessionInfo, waitResult>>

Next ==
    \/ ConnectBegin
    \/ DeleteSplitTunnelingFile
    \/ PreHandshake
    \/ TransportConnect
    \/ StartLocalProxy
    \/ PostHandshake
    \/ WaitForDisconnectBlock
    \/ WaitForDisconnectWake
    \/ Destructor

Spec == Init /\ [][Next]_vars

\* ==== properties ============================================================
\* positions of the calls of an operation in a call log
Positions(cs, op) == { i \in DOMAIN cs : cs[i].op = op }
Called(op) == Positions(calls, op) # {}

\* every call of op b is preceded by a call of op a
Precedes(cs, a, b) ==
    \A j \in Positions(cs, b) : \E i \in Positions(cs, a) : i < j

\* Connect has run its filter step (it did not stop at a debug assertion
\* before it)
FilterRan == args # NoArgs /\ ~(pc = "aborted" /\ calls = <<>>)

FirstNeedsHandshake == args # NoArgs /\ IsHandshakeRequired(args.entries[1])

\* the calls of Cleanup on an attached transport, found in cs from position i
CleanupAt(cs, i) ==
    /\ i + 2 <= Len(cs)
    /\ cs[i].op = "Revert"
    /\ cs[i + 1].op = "TransportStop"
    /\ cs[i + 2].op = "TransportCleanup"

\* C1: when Connect has failed after attaching the transport (pc = "failed",
\* m_transport set), Revert was called, the transport was asked to stop, and
\* Revert precedes every TransportStop, every stop of the local proxy and its
\* release.
C1_RevertBeforeStopOnConnectFailure ==
    (pc = "failed" /\ m_transport) =>
        /\ Called("Revert")
        /\ Called("TransportStop")
        /\ Precedes(calls, "Revert", "TransportStop")
        /\ Precedes(calls, "Revert", "LocalProxyStop")
        /\ Precedes(calls, "Revert", "LocalProxyDelete")

\* C1 witness: Connect failed on a malformed post-connect handshake response,
\* with the transport stopped and the local proxy released.
C1_Witness ==
    /\ pc = "failed"
    /\ io_serverEntries # <<>>
    /\ m_transport
    /\ Called("TransportStop")
    /\ Called("LocalProxyDelete")
    /\ \E i \in DOMAIN hsLog : ~hsLog[i].pre /\ hsLog[i].response = "malformed"

\* C2 (as claimed): when WaitForDisconnect has ended, after a Connect that
\* succeeded on a non-empty filtered list, Revert precedes every Stop
\* requested on the transport and on the local proxy.
C2_RevertBeforeStopOnShutdown ==
    (pc = "disconnected" /\ io_serverEntries # <<>>) =>
        /\ Precedes(calls, "Revert", "TransportStop")
        /\ Precedes(calls, "Revert", "LocalProxyStop")

\* C3 (as claimed): once a post-connect handshake has been attempted (on a
\* non-empty filtered list), Connect does not fail: it never raises and never
\* runs Cleanup, and when it ends the session has been pushed to the local
\* proxy and the transport.
PostHandshakeAttempted == \E i \in DOMAIN hsLog : ~hsLog[i].pre

C3_PostHandshakeNeverFails ==
    (PostHandshakeAttempted /\ io_serverEntries # <<>>
         /\ pc \in {"failed", "connected"}) =>
        /\ pc = "connected"
        /\ raised = "none"
        /\ ~Called("Revert")
        /\ Called("LocalProxyUpdateSessionInfo")
        /\ Called("TransportUpdateSessionInfo")

C5_PreHandshakeKeepsOnlyFirst ==
    (FilterRan /\ FirstNeedsHandshake) =>
        io_serverEntries = <<args.entries[1]>>

\* C5 witness: a list of MaxEntries entries, the transport's multi-connect
\* count above one, cut down to its first entry.
C5_Witness ==
    /\ FilterRan
    /\ FirstNeedsHandshake
    /\ Len(args.entries) = MaxEntries
    /\ args.multiConnectCount > 1
    /\ io_serverEntries = <<args.entries[1]>>

\* the entries of a list that do not require pre-handshake, in order
HandshakeFree(entries) == SelectSeq(entries, LAMBDA e : ~IsHandshakeRequired(e))

Min(a, b) == IF a < b THEN a ELSE b

\* C6: once the filter step has run on a list whose first entry does not
\* require pre-handshake, the caller's list is the prefix, of length
\* min(k, multi-connect count), of the k handshake-free entries in their
\* original order; so it is no longer than the count and holds no entry that
\* requires pre-handshake.
C6_NoPreHandshakeFilter ==
    (FilterRan /\ ~FirstNeedsHandshake) =>
        LET free == HandshakeFree(args.entries)
        IN  /\ io_serverEntries =
                  SubSeq(free, 1, Min(Len(free), args.multiConnectCount))
            /\ Len(io_serverEntries) <= args.multiConnectCount
            /\ \A i \in DOMAIN io_serverEntries :
                  ~IsHandshakeRequired(io_serverEntries[i])

\* C6 witness: three handshake-free candidates and a multi-connect count of
\* two leave the first two, in order.
C6_Witness ==
    /\ FilterRan
    /\ Len(args.entries) = 3
    /\ \A i \in 1..3 : ~IsHandshakeRequired(args.entries[i])
    /\ args.multiConnectCount = 2
    /\ io_serverEntries = <<args.entries[1], args.entries[2]>>

\* C7 (as claimed): when the filter leaves no candidate, Connect ends raising
\* TryNextServer, and neither a handshake request nor the transport's connect
\* is made.
C7_EmptyFilteredListIsRetryable ==
    (FilterRan /\ io_serverEntries = <<>>) =>
        /\ pc \in {"failed", "destroyed"}
        /\ raised = "TryNextServer"
        /\ ~Called("MakeRequest")
        /\ ~Called("TransportConnect")

\* C8: when the first candidate requires pre-handshake and the caller
\* disallows handshakes, Connect, unless a debug assertion aborted it, ends
\* raising TryNextServer; no handshake request, transport connect, local
\* proxy or Apply ever happens, and m_transport and m_localProxy stay unset.
C8_DisallowedPreHandshake ==
    (FirstNeedsHandshake /\ args.disallowHandshake) =>
        /\ pc \in {"failed", "destroyed", "aborted"}
        /\ pc # "aborted" => raised = "TryNextServer"
        /\ hsLog = <<>>
        /\ ~Called("MakeRequest")
        /\ ~Called("TransportConnect")
        /\ ~Called("LocalProxyNew")
        /\ ~Called("Apply")
        /\ ~m_transport
        /\ ~m_localProxy

\* C8 witness: Connect has thrown TryNextServer from the filter step.
C8_Witness ==
    /\ FirstNeedsHandshake
    /\ args.disallowHandshake
    /\ pc = "failed"
    /\ raised = "TryNextServer"
    /\ calls = <<>>

\* C9: when LocalProxy::Start returned false, Connect ends raising the worker
\* error, Apply was never called, and Start is directly followed by Revert,
\* the transport's Stop and Cleanup and the release of the local proxy.
C9_LocalProxyStartFailure ==
    \A i \in DOMAIN calls :
        (calls[i].op = "LocalProxyStart" /\ calls[i].result = "false") =>
            /\ pc \in {"failed", "destroyed"}
            /\ raised = "WorkerError"
            /\ ~Called("Apply")
            /\ CleanupAt(calls, i + 1)
            /\ i + 4 <= Len(calls)
            /\ calls[i + 4].op = "LocalProxyDelete"
            /\ ~m_localProxy

\* C9 witness: Connect failed after LocalProxy::Start returned false.
C9_Witness ==
    /\ pc = "failed"
    /\ io_serverEntries # <<>>
    /\ \E i \in DOMAIN calls :
          calls[i].op = "LocalProxyStart" /\ calls[i].result = "false"

\* C10: when the transport's connect threw TransportFailed, Connect ends
\* raising TryNextServer, the failed connect is directly followed by Revert
\* and the transport's Stop and Cleanup, and no local proxy was constructed
\* and Apply was never called.
C10_TransportFailedIsRetryable ==
    \A i \in DOMAIN calls :
        (calls[i].op = "TransportConnect"
             /\ calls[i].result = "TransportFailed") =>
            /\ pc \in {"failed", "destroyed"}
            /\ raised = "TryNextServer"
            /\ CleanupAt(calls, i + 1)
            /\ ~Called("LocalProxyNew")
            /\ ~Called("Apply")
            /\ ~m_localProxy

\* C10 witness: Connect failed after the transport's connect threw
\* TransportFailed on a list of two candidates.
C10_Witness ==
    /\ pc = "failed"
    /\ Len(sessionInfoCandidates) = 2
    /\ \E i \in DOMAIN calls :
          calls[i].op = "TransportConnect"
              /\ calls[i].result = "TransportFailed"

\* C11: when a pre-connect handshake failed (the request failed or the
\* response was empty), Connect ends raising TryNextServer, Cleanup's calls
\* directly follow the request, and the transport's connect, the local
\* proxy's construction and Apply never happen.
C11_PreHandshakeFailureIsRetryable ==
    \A i \in DOMAIN hsLog :
        (hsLog[i].pre /\ hsLog[i].response \in {"reqfail", "empty"}) =>
            /\ pc \in {"failed", "destroyed"}
            /\ raised = "TryNextServer"
            /\ \A j \in Positions(calls, "MakeRequest") : CleanupAt(calls, j + 1)
            /\ ~Called("TransportConnect")
            /\ ~Called("LocalProxyNew")
            /\ ~Called("Apply")
            /\ ~m_localProxy

\* C11 witness: Connect failed on a pre-connect handshake whose response was
\* empty, on the candidate the caller passed.
C11_Witness ==
    /\ pc = "failed"
    /\ io_serverEntries # <<>>
    /\ FirstNeedsHandshake
    /\ \E i \in DOMAIN hsLog : hsLog[i].pre /\ hsLog[i].response = "empty"

\* C12 (as claimed): once Connect has failed, WaitForDisconnect has ended or
\* the destructor has run, so that Cleanup was invoked on an orchestrator
\* that got a non-empty filtered list, it holds neither the transport nor
\* the local proxy.
C12_NoReferenceAfterCleanup ==
    (pc \in {"failed", "disconnected", "destroyed"} /\ Called("Revert")
         /\ io_serverEntries # <<>>) =>
        /\ ~m_transport
        /\ ~m_localProxy

\* ---- the collaborators' state, as the calls made on them leave it ----------
\* Revert and Stop may be repeated; deleting a released local proxy again
\* corrupts it.
ExternalInit ==
    [settings |-> "notApplied", transport |-> "idle", localProxy |-> "none"]

ApplyCall(st, c) ==
    IF c.op = "Apply" THEN [st EXCEPT !.settings = "applied"]
    ELSE IF c.op = "Revert" THEN [st EXCEPT !.settings = "notApplied"]
    ELSE IF c.op = "TransportConnect" /\ c.result = "ok"
         THEN [st EXCEPT !.transport = "connected"]
    ELSE IF c.op = "TransportStop" THEN [st EXCEPT !.transport = "stopped"]
    ELSE IF c.op = "TransportCleanup" THEN [st EXCEPT !.transport = "cleaned"]
    ELSE IF c.op = "LocalProxyNew" THEN [st EXCEPT !.localProxy = "constructed"]
    ELSE IF c.op = "LocalProxyStart" /\ c.result = "true"
         THEN [st EXCEPT !.localProxy = "running"]
    ELSE IF c.op = "LocalProxyStop" THEN [st EXCEPT !.localProxy = "stopped"]
    ELSE IF c.op = "LocalProxyDelete"
         THEN [st EXCEPT !.localProxy =
                  IF st.localProxy \in {"none", "released", "corrupt"}
                  THEN "corrupt" ELSE "released"]
    ELSE st

RECURSIVE ExternalStateFrom(_, _)
ExternalStateFrom(st, cs) ==
    IF cs = <<>> THEN st
    ELSE ExternalStateFrom(ApplyCall(st, Head(cs)), Tail(cs))

ExternalState(cs) == ExternalStateFrom(ExternalInit, cs)

StopOrReleaseOps ==
    {"TransportStop", "TransportCleanup", "LocalProxyStop", "LocalProxyDelete"}

\* C13: in every reachable state, Cleanup invoked twice in a row leaves the
\* collaborators in the state one invocation leaves them in (settings not
\* applied, transport cleaned, local proxy released, nothing corrupted), and
\* Cleanup with no transport attached and no local proxy constructed makes
\* no stop or release call.
C13_CleanupIdempotent ==
    LET first  == CleanupCalls(m_transport, m_localProxy)
        after  == AfterCleanup(m_transport, m_localProxy)
        second == CleanupCalls(after.m_transport, after.m_localProxy)
        once   == ExternalState(calls \o first)
        twice  == ExternalState(calls \o first \o second)
    IN  /\ twice = once
        /\ once.settings = "notApplied"
        /\ once.localProxy \in {"none", "released"}
        /\ m_transport => once.transport = "cleaned"
        /\ (~m_transport /\ ~m_localProxy) =>
              \A i \in DOMAIN first : first[i].op \notin StopOrReleaseOps
        /\ pc = "destroyed" => ExternalState(calls) = once

\* C13 witness: the destructor ran Cleanup right after a failed Connect had
\* run it and released the local proxy.
C13_Witness ==
    /\ pc = "destroyed"
    /\ io_serverEntries # <<>>
    /\ raised # "none"
    /\ Cardinality(Positions(calls, "Revert")) = 2
    /\ Cardinality(Positions(calls, "LocalProxyDelete")) = 1
    /\ ExternalState(calls).localProxy = "released"

\* the calls WaitForDisconnect makes once its wait has returned: both stops,
\* then Cleanup on the attached transport and the local proxy
ShutdownCalls ==
    <<Call("LocalProxyStop", "void"), Call("TransportStop", "void"),
      Call("Revert", "void"), Call("TransportStop", "void"),
      Call("TransportCleanup", "void"), Call("LocalProxyDelete", "void")>>

\* the last n calls of a call log
LastCalls(cs, n) == SubSeq(cs, Len(cs) - n + 1, Len(cs))

\* C14: while WaitForDisconnect blocks, no stop, revert or release call has
\* been made; once the wait has returned, whichever result it had, the calls
\* end with Stop on the local proxy and on the transport followed by
\* Cleanup's calls.
C14_WaitThenStopBothThenCleanup ==
    /\ pc = "waiting" =>
          /\ \A op \in StopOrReleaseOps \cup {"Revert"} : ~Called(op)
          /\ waitResult = -1
    /\ pc = "disconnected" =>
          /\ waitResult \in WaitResults
          /\ Len(calls) >= Len(ShutdownCalls)
          /\ LastCalls(calls, Len(ShutdownCalls)) = ShutdownCalls
          /\ Cardinality(Positions(calls, "LocalProxyStop")) = 1

\* C14 witness: WaitForDisconnect has ended after the transport's stopped
\* event woke it, and the local proxy was stopped too.
C14_Witness ==
    /\ pc = "disconnected"
    /\ waitResult = WAIT_OBJECT_0
    /\ Called("LocalProxyStop")
    /\ Called("TransportCleanup")

\* C15: when WaitForDisconnect has ended, it raised the worker error exactly
\* if the wait's result is neither of the two stop signals, and in both
\* cases both collaborators were stopped and then Cleanup has run to its
\* end (Revert, the transport's Stop and Cleanup, the local proxy's release).
C15_WaitFailureIsFatal ==
    pc = "disconnected" =>
        LET n == Len(calls)
        IN  /\ ((raised = "WorkerError") <=>
                   (waitResult \notin {WAIT_OBJECT_0, WAIT_OBJECT_0 + 1}))
            /\ raised \in {"WorkerError", "none"}
            /\ n >= 6
            /\ {calls[n - 5].op, calls[n - 4].op} =
                   {"LocalProxyStop", "TransportStop"}
            /\ CleanupAt(calls, n - 3)
            /\ calls[n].op = "LocalProxyDelete"
            /\ ~m_localProxy

\* C15 witness: the local proxy's stopped event woke the wait and
\* WaitForDisconnect returned normally.
C15_Witness ==
    /\ pc = "disconnected"
    /\ waitResult = WAIT_OBJECT_0 + 1
    /\ raised = "none"

\* C16: Apply is called at most once; the call before it is a
\* LocalProxy::Start that returned true, itself after a transport connect
\* that succeeded; and Apply is never called when the transport's connect
\* threw or Start returned false.
C16_ApplyOnlyAfterStartSuccess ==
    /\ Cardinality(Positions(calls, "Apply")) <= 1
    /\ \A j \in Positions(calls, "Apply") :
          /\ j > 1
          /\ calls[j - 1] = Call("LocalProxyStart", "true")
          /\ \E i \in 1..(j - 1) : calls[i] = Call("TransportConnect", "ok")
    /\ \A i \in DOMAIN calls :
          (\/ calls[i].op = "TransportConnect" /\ calls[i].result # "ok"
           \/ calls[i] = Call("LocalProxyStart", "false"))
              => ~Called("Apply")

\* C16 witness: Connect succeeded and Apply was called.
C16_Witness ==
    /\ pc = "connected"
    /\ Called("Apply")

\* C17: when DeleteFile failed (std::exception) or the transport's connect
\* threw an unknown failure, Connect ends raising that same failure, after
\* Cleanup's calls; Connect raises TryNextServer only for TransportFailed, a
\* handshake failure or a disallowed pre-handshake.
C17_OtherFailuresRethrownUnchanged ==
    /\ \A i \in DOMAIN calls :
          /\ calls[i] = Call("DeleteFile", "ERROR_OTHER") =>
                /\ pc \in {"failed", "destroyed"}
                /\ raised = "StdException"
                /\ CleanupAt(calls, i + 1)
          /\ calls[i] = Call("TransportConnect", "UnknownError") =>
                /\ pc \in {"failed", "destroyed"}
                /\ raised = "UnknownError"
                /\ CleanupAt(calls, i + 1)
    /\ raised = "TryNextServer" =>
          \/ \E i \in DOMAIN calls :
                calls[i] = Call("TransportConnect", "TransportFailed")
          \/ \E i \in DOMAIN hsLog : hsLog[i].ret \in {"false", "throw"}
          \/ FirstNeedsHandshake /\ args.disallowHandshake

\* C17 witness: Connect failed with the unknown failure the transport's
\* connect threw.
C17_Witness ==
    /\ pc = "failed"
    /\ raised = "UnknownError"
    /\ Called("TransportCleanup")

\* a handshake request got a response that parsed
HandshakeMerged == \E i \in DOMAIN hsLog : hsLog[i].ret = "true"

\* C18: when Connect has reached Connected, a post-connect handshake, if one
\* was made, comes after the transport's successful connect and before both
\* session updates; both updates were made, with the same value, which is
\* m_sessionInfo (what GetUpdatedSessionInfo returns): the session derived
\* from the entry at the index the transport reported, with the handshake's
\* fields merged exactly if a handshake succeeded.
C18_ChosenSessionPropagated ==
    pc \in {"connected", "waiting"} =>
        /\ \A i \in DOMAIN hsLog : ~hsLog[i].pre =>
              /\ \A j \in Positions(calls, "MakeRequest") :
                    /\ \E k \in 1..(j - 1) :
                          calls[k] = Call("TransportConnect", "ok")
                    /\ \A u \in Positions(calls, "LocalProxyUpdateSessionInfo")
                               \cup Positions(calls, "TransportUpdateSessionInfo") :
                          j < u
        /\ Called("LocalProxyUpdateSessionInfo")
        /\ Called("TransportUpdateSessionInfo")
        /\ localProxySessionInfo = m_sessionInfo
        /\ transportSessionInfo = m_sessionInfo
        /\ ChosenIndexAssert(chosenSessionInfoIndex, io_serverEntries)
        /\ m_sessionInfo =
              [server |-> io_serverEntries[chosenSessionInfoIndex + 1].addr,
               merged |-> HandshakeMerged]

\* C18 witness: the transport reported index 1 of 2 candidates, the
\* post-connect handshake succeeded, and the second candidate's session, with
\* the handshake merged, was pushed to both.
C18_Witness ==
    /\ pc = "connected"
    /\ Len(sessionInfoCandidates) = 2
    /\ chosenSessionInfoIndex = 1
    /\ m_sessionInfo = [server |-> io_serverEntries[2].addr, merged |-> TRUE]
    /\ transportSessionInfo = m_sessionInfo
    /\ \E i \in DOMAIN hsLog : ~hsLog[i].pre /\ hsLog[i].ret = "true"

\* C19: m_localProxy is set only after a transport connect that succeeded,
\* and once Connect has failed or WaitForDisconnect has ended it is unset
\* and every local proxy constructed has been deleted.
C19_LocalProxyLifetime ==
    /\ m_localProxy =>
          \E i \in DOMAIN calls : calls[i] = Call("TransportConnect", "ok")
    /\ \A j \in Positions(calls, "LocalProxyNew") :
          \E i \in 1..(j - 1) : calls[i] = Call("TransportConnect", "ok")
    /\ pc \in {"failed", "disconnected", "destroyed"} =>
          /\ ~m_localProxy
          /\ Cardinality(Positions(calls, "LocalProxyDelete")) =
                Cardinality(Positions(calls, "LocalProxyNew"))

\* C19 witness: Connect failed after constructing a local proxy, which was
\* deleted.
C19_Witness ==
    /\ pc = "failed"
    /\ io_serverEntries # <<>>
    /\ Called("LocalProxyNew")
    /\ Called("LocalProxyDelete")
    /\ ~m_localProxy

\* C20 (as claimed): at most one handshake request is made in a Connect; a
\* pre-connect handshake is made only when the first filtered candidate
\* requires it; no handshake request is made when the caller disallows
\* handshakes.
C20_AtMostOneHandshake ==
    /\ Len(hsLog) <= 1
    /\ Cardinality(Positions(calls, "MakeRequest")) <= 1
    /\ \A i \in DOMAIN hsLog : hsLog[i].pre =>
          /\ io_serverEntries # <<>>
          /\ IsHandshakeRequired(io_serverEntries[1])
    /\ (args # NoArgs /\ args.disallowHandshake) => hsLog = <<>>

====
